---- MODULE Spec2Model ----
(***************************************************************************)
(* Model of the paged hosts of flutter_react_css: PageView,                *)
(* PageViewBuilder and PageViewCustom.                                     *)
(*                                                                         *)
(* Each host is a React function component.  It keeps the page index in a  *)
(* useState hook, and every closure it hands out (the controller handle    *)
(* and the onScroll handler) reads the value `currentPage` of the render   *)
(* that created the closure.  setCurrentPage(v) only queues v: the         *)
(* closures see it after React has rendered the component again.  The      *)
(* model keeps both values: pendingPage is the hook's state (the last      *)
(* value given to setCurrentPage), currentPage is what the closures of the *)
(* last render hold.                                                       *)
(***************************************************************************)
EXTENDS Integers, Naturals, Sequences, FiniteSets, TLC

(***************************************************************************)
(* Bounds of the model.                                                    *)
(***************************************************************************)
\* how far past the range -1 .. 5 a handle may drive the index
MaxOvershoot == 0

\* page counts (children.length, or the count prop) the hosts are built with
Counts == {0, 3, 5}
\* viewport sizes along the scrolling axis (0: collapsed container)
PageExtents == {0, 300}
\* primary-axis offsets carried by scroll events
Offsets == {0, 150, 620, 1500}
\* arguments given to setPage
PageArgs == {-1, 0, 1, 2, 5}

Hosts == {"PageView", "PageViewBuilder", "PageViewCustom"}
Physics == {"bouncy", "never", "clamped"}
ScrollDirections == {"horizontal", "vertical"}

\* the viewport of a scrollable surface: clientHeight and clientWidth
ViewportSize == 2
\* content sizes along an axis: no overflow, or an overflow of 2
ContentSizes == {ViewportSize, ViewportSize + 2}
\* arguments given to scrollBy and scrollTo
ScrollArgs == {-1, 0, 1, 5}

ScrollHosts == {"ListView", "ListViewBuilder", "ListViewSeparated",
                "GridView", "GridViewBuilder", "GridViewCount",
                "NestedScrollView", "CustomScrollView"}
\* the hosts with a reverse and a scrollBehavior prop
StyledHosts == {"NestedScrollView", "CustomScrollView"}
ScrollBehaviors == {"smooth", "auto"}

(***************************************************************************)
(* JavaScript numbers.  The values that occur are integers, NaN (0 / 0)    *)
(* and Infinity (x / 0 with x > 0); the two special values are encoded as  *)
(* integers outside every range the model uses.                            *)
(***************************************************************************)
NaN == -1000
Infinity == 1000000

\* a !== b
StrictNotEqual(a, b) == a = NaN \/ b = NaN \/ a # b

\* a + d and a - d for an integer d
JsAdd(a, d) == IF a = NaN THEN NaN ELSE IF a = Infinity THEN Infinity ELSE a + d

\* Math.min(a, b), Math.max(a, b)
MathMin(a, b) ==
  IF a = NaN \/ b = NaN THEN NaN
  ELSE IF a = Infinity THEN b
  ELSE IF b = Infinity THEN a
  ELSE IF a <= b THEN a ELSE b

MathMax(a, b) ==
  IF a = NaN \/ b = NaN THEN NaN
  ELSE IF a = Infinity \/ b = Infinity THEN Infinity
  ELSE IF a >= b THEN a ELSE b

\* Math.round(a / b) for integers a >= 0, b >= 0: floor(a / b + 1/2)
MathRoundDiv(a, b) ==
  IF b = 0 THEN (IF a = 0 THEN NaN ELSE Infinity)
  ELSE (2 * a + b) \div (2 * b)

\* a >= 0 && a < n
InRange(a, n) == a # NaN /\ a # Infinity /\ a >= 0 /\ a < n

(***************************************************************************)
(* State.                                                                  *)
(***************************************************************************)
VARIABLES
  host,            \* which component this is
  physics,         \* the physics prop
  scrollDirection, \* the scrollDirection prop
  count,           \* children.length (PageView) or the count prop
  offsetWidth,     \* pageContainerRef.current.offsetWidth
  offsetHeight,    \* pageContainerRef.current.offsetHeight
  scrollLeft,      \* the container's scrollLeft
  scrollTop,       \* the container's scrollTop
  currentPage,     \* currentPage as held by the closures of the last render
  pendingPage,     \* the useState hook's value: the last setCurrentPage argument
  onPageChanged,   \* the onPageChanged calls made by the last step
  lastCall         \* the last handle call or scroll event: see Call

vars == << host, physics, scrollDirection, count, offsetWidth, offsetHeight,
           scrollLeft, scrollTop, currentPage, pendingPage,
           onPageChanged, lastCall >>

props == << host, physics, scrollDirection, count, offsetWidth, offsetHeight >>
surface == << scrollLeft, scrollTop >>

\* the state of a scrollable host and of the element its handle scrolls
VARIABLES
  scrollHost,      \* which scrollable component this is
  direction,       \* its scrollDirection prop
  reverse,         \* its reverse prop (direction: rtl on the element)
  scrollBehavior,  \* the behavior its scrollTo / scrollBy calls end up with
  mounted,         \* the element is in the document, the ref points at it
  contentHeight,   \* height of the element's content
  contentWidth,    \* width of the element's content
  surfaceTop,      \* the element's scrollTop
  surfaceLeft,     \* the element's scrollLeft
  targetTop,       \* where a smooth scroll in flight takes scrollTop
  targetLeft,      \* where a smooth scroll in flight takes scrollLeft
  scrollPosition,  \* CustomScrollView's useState copy of the offset
  threw,           \* a handle method has thrown
  scrollCall       \* the last handle call (with its result) or event

scrollProps == << scrollHost, direction, reverse, scrollBehavior >>
geometry == << contentHeight, contentWidth >>
element == << surfaceTop, surfaceLeft, targetTop, targetLeft >>
scrollVars == << scrollHost, direction, reverse, scrollBehavior, mounted,
                 contentHeight, contentWidth, surfaceTop, surfaceLeft,
                 targetTop, targetLeft, scrollPosition, threw, scrollCall >>

\* no scrollable host is part of the run
ScrollIdle ==
  /\ scrollHost = "ListView"
  /\ direction = "vertical"
  /\ reverse = FALSE
  /\ scrollBehavior = "auto"
  /\ mounted = FALSE
  /\ contentHeight = ViewportSize
  /\ contentWidth = ViewportSize
  /\ surfaceTop = 0
  /\ surfaceLeft = 0
  /\ targetTop = 0
  /\ targetLeft = 0
  /\ scrollPosition = [top |-> 0, left |-> 0]
  /\ threw = FALSE
  /\ scrollCall = [op |-> "none", top |-> 0, left |-> 0]

\* values of the page index the model lets the hosts reach
PageValues == ((0 - MaxOvershoot - 1) .. (5 + MaxOvershoot)) \cup {NaN}

\* the handle's three commands
Commands == {"setPage", "nextPage", "previousPage"}

\* A call record: the operation, its argument (setPage) or result
\* (getCurrentPage), for a command the hook's value before the call, and
\* whether the command came while the change made by the command before it
\* was still on its way (no scroll event was delivered in between).
Call(op, arg) ==
  [op |-> op, arg |-> arg,
   from |-> IF op \in Commands THEN pendingPage ELSE 0,
   retarget |-> /\ op \in Commands
                /\ lastCall.op \in Commands
                /\ lastCall.from # pendingPage]

\* the page extent handleScroll divides by
PageExtent == IF scrollDirection = "horizontal" THEN offsetWidth ELSE offsetHeight
\* the offset handleScroll reads
ScrollAmount(left, top) == IF scrollDirection = "horizontal" THEN left ELSE top

\* no paged host is part of the run
PageIdle ==
  /\ host = "PageView"
  /\ physics = "clamped"
  /\ scrollDirection = "vertical"
  /\ count = 0
  /\ offsetWidth = 0
  /\ offsetHeight = 0
  /\ scrollLeft = 0
  /\ scrollTop = 0
  /\ currentPage = 0
  /\ pendingPage = 0
  /\ onPageChanged = << >>
  /\ lastCall = [op |-> "none", arg |-> 0, from |-> 0, retarget |-> FALSE]

\* how a host hands its handle to the reference the caller supplied
VARIABLES
  bindHost,        \* which component this is
  suppliedRef,     \* the ref object given as prop in the last render
  refCurrent,      \* .current of each of the caller's ref objects
  instance,        \* the mounted instance of the host (and its element)
  effectPending,   \* the host's useEffect has still to run for the last commit
  bindCall         \* the last call the caller made through its reference

bindVars == << bindHost, suppliedRef, refCurrent, instance, effectPending, bindCall >>

\* the caller's ref objects
Refs == {"refA", "refB"}
\* no handle
Null == [instance |-> 0, element |-> 0]

\* no host with a controller reference is part of the run
BindIdle ==
  /\ bindHost = "ListView"
  /\ suppliedRef = "refA"
  /\ refCurrent = [r \in Refs |-> Null]
  /\ instance = 0
  /\ effectPending = FALSE
  /\ bindCall = [op |-> "none", reached |-> FALSE, actedOn |-> 0]

\* the state of a Carousel
VARIABLES
  carouselProps,       \* children.length, enableInfiniteScroll, reverse
  autoPlayInterval,    \* the autoPlayInterval prop
  currentIndex,        \* useState(initialPage)
  isPlaying,           \* useState(autoPlay)
  carouselIntervalRef, \* carouselIntervalRef.current: a timer id, 0 for null
  armedTimers,         \* the interval timers set and not cleared
  timersMade,          \* how many setInterval calls were made
  effectDeps,          \* [isPlaying, autoPlayInterval] of the last effect run
  carouselMounted,     \* the Carousel is mounted
  carouselEvent        \* the last event and the onPageChanged calls it made

carouselVars == << carouselProps, autoPlayInterval, currentIndex, isPlaying,
                   carouselIntervalRef, armedTimers, timersMade, effectDeps,
                   carouselMounted, carouselEvent >>

\* values of the autoPlayInterval prop
Intervals == {1000, 3000}

\* no Carousel is part of the run
CarouselIdle ==
  /\ carouselProps = [length |-> 1, enableInfiniteScroll |-> FALSE, reverse |-> FALSE]
  /\ autoPlayInterval = 3000
  /\ currentIndex = 0
  /\ isPlaying = FALSE
  /\ carouselIntervalRef = 0
  /\ armedTimers = {}
  /\ timersMade = 0
  /\ effectDeps = << >>
  /\ carouselMounted = FALSE
  /\ carouselEvent = [op |-> "none", calls |-> << >>]

\* the state of a TextEditingController
VARIABLES
  text,            \* this.text
  listeners,       \* this.listeners
  textEvent        \* the last call on the controller and the listener calls it made

textVars == << text, listeners, textEvent >>

\* no TextEditingController is part of the run
TextIdle ==
  /\ text = ""
  /\ listeners = << >>
  /\ textEvent = [op |-> "none", arg |-> "", calls |-> << >>]

\* the state of a GestureDetector
VARIABLES
  lastTap,              \* useState(null): time of the last single tap, 0 for null
  lastTapRendered,      \* lastTap as the handlers of the last render hold it
  pressTimeout,         \* useState(null): a timeout id, 0 for null
  pressTimeoutRendered, \* pressTimeout as the handlers of the last render hold it
  pendingTimeouts,      \* the timeouts set and neither cleared nor fired
  timeoutsMade,         \* how many setTimeout calls were made
  now,                  \* Date.now()
  pressed,              \* the pointer is down on the component
  gestureEvent          \* the last event and the callbacks it called

gestureVars == << lastTap, lastTapRendered, pressTimeout, pressTimeoutRendered,
                  pendingTimeouts, timeoutsMade, now, pressed, gestureEvent >>

\* the clock when the component is mounted
StartTime == 1000

\* no GestureDetector is part of the run
GestureIdle ==
  /\ lastTap = 0
  /\ lastTapRendered = 0
  /\ pressTimeout = 0
  /\ pressTimeoutRendered = 0
  /\ pendingTimeouts = {}
  /\ timeoutsMade = 0
  /\ now = StartTime
  /\ pressed = FALSE
  /\ gestureEvent = [op |-> "none", calls |-> << >>, timer |-> 0]

\* the state beyond the paged and the scrollable hosts
extras == << bindVars, carouselVars, textVars, gestureVars >>
allVars == << vars, scrollVars, extras >>
ExtrasIdle == BindIdle /\ CarouselIdle /\ TextIdle /\ GestureIdle

(***************************************************************************)
(* The state after the first render: useState(0), no scrolling yet.        *)
(***************************************************************************)
PageInit ==
  /\ host \in Hosts
  /\ physics \in Physics
  /\ scrollDirection \in ScrollDirections
  /\ count \in Counts
  /\ \E e \in PageExtents : offsetWidth = e /\ offsetHeight = e
  /\ scrollLeft = 0
  /\ scrollTop = 0
  /\ currentPage = 0
  /\ pendingPage = 0
  /\ onPageChanged = << >>
  /\ lastCall = [op |-> "mount", arg |-> 0, from |-> 0, retarget |-> FALSE]
  /\ ScrollIdle
  /\ ExtrasIdle

(***************************************************************************)
(* handlePageChange(newPage), run by a closure that holds currentPage.     *)
(* PageView and PageViewBuilder test only newPage !== currentPage;         *)
(* PageViewCustom also tests newPage >= 0 && newPage < count.              *)
(***************************************************************************)
PageChangeAccepted(newPage) ==
  /\ StrictNotEqual(newPage, currentPage)
  /\ host = "PageViewCustom" => InRange(newPage, count)

handlePageChange(newPage) ==
  IF PageChangeAccepted(newPage)
  THEN /\ newPage \in PageValues
       /\ pendingPage' = newPage
       /\ onPageChanged' = << newPage >>
  ELSE /\ pendingPage' = pendingPage
       /\ onPageChanged' = << >>

(***************************************************************************)
(* The controller handle.                                                  *)
(***************************************************************************)
\* setPage: (pageIndex) => setCurrentPage(pageIndex)
setPage(pageIndex) ==
  /\ pendingPage' = pageIndex
  /\ onPageChanged' = << >>
  /\ lastCall' = Call("setPage", pageIndex)
  /\ UNCHANGED << scrollVars, extras, props, surface, currentPage >>

\* getCurrentPage: () => currentPage
getCurrentPage ==
  /\ onPageChanged' = << >>
  /\ lastCall' = Call("getCurrentPage", currentPage)
  /\ UNCHANGED << scrollVars, extras, props, surface, currentPage, pendingPage >>

\* nextPage: () => handlePageChange(currentPage + 1)
nextPage ==
  /\ handlePageChange(JsAdd(currentPage, 1))
  /\ lastCall' = Call("nextPage", 0)
  /\ UNCHANGED << scrollVars, extras, props, surface, currentPage >>

\* previousPage: () => handlePageChange(currentPage - 1)
previousPage ==
  /\ handlePageChange(JsAdd(currentPage, -1))
  /\ lastCall' = Call("previousPage", 0)
  /\ UNCHANGED << scrollVars, extras, props, surface, currentPage >>

(***************************************************************************)
(* handleScroll: the onScroll handler of the container.                    *)
(***************************************************************************)
\* handleScroll with every branch but the one of "bouncy" as written
ApplyPhysicsBouncyFree(p, newPage) ==
  IF p = "bouncy" THEN newPage
  ELSE IF p = "never" THEN MathMax(0, MathMin(newPage, count - 1))
  ELSE IF p = "clamped" THEN MathMax(0, MathMin(newPage, count - 1))
  ELSE newPage

\* the three physics branches: Math.max(0, Math.min(newPage, count - 1))
ApplyPhysicsOf(p, newPage) ==
  IF p = "bouncy" THEN MathMax(0, MathMin(newPage, count - 1))
  ELSE IF p = "never" THEN MathMax(0, MathMin(newPage, count - 1))
  ELSE IF p = "clamped" THEN MathMax(0, MathMin(newPage, count - 1))
  ELSE newPage

ApplyPhysics(newPage) == ApplyPhysicsOf(physics, newPage)

ScrollPage(left, top) == ApplyPhysics(MathRoundDiv(ScrollAmount(left, top), PageExtent))

\* the surface moves to offset o along the scrolling axis and the scroll
\* event is delivered to handleScroll
handleScroll(o) ==
  /\ o # ScrollAmount(scrollLeft, scrollTop)
  /\ scrollLeft' = (IF scrollDirection = "horizontal" THEN o ELSE scrollLeft)
  /\ scrollTop' = (IF scrollDirection = "vertical" THEN o ELSE scrollTop)
  /\ handlePageChange(ScrollPage(scrollLeft', scrollTop'))
  /\ lastCall' = Call("scroll", 0)
  /\ UNCHANGED << scrollVars, extras, props, currentPage >>

(***************************************************************************)
(* React renders the component again after a state change: the handle and  *)
(* the onScroll handler are replaced by closures over the new value.       *)
(***************************************************************************)
Render ==
  /\ pendingPage # currentPage
  /\ currentPage' = pendingPage
  /\ onPageChanged' = << >>
  /\ UNCHANGED << scrollVars, extras, props, surface, pendingPage, lastCall >>

PageNext ==
  \/ \E i \in PageArgs : setPage(i)
  \/ getCurrentPage
  \/ nextPage
  \/ previousPage
  \/ \E o \in Offsets : handleScroll(o)
  \/ Render

PageSpec == PageInit /\ [][PageNext]_allVars

\* React always renders a pending state change
PageFairSpec == PageSpec /\ WF_allVars(Render)

(***************************************************************************)
(* The scrollable hosts: ListView, ListViewBuilder, ListViewSeparated,     *)
(* GridView, GridViewBuilder, GridViewCount, NestedScrollView and          *)
(* CustomScrollView.  Each hands out a handle whose methods act on the     *)
(* DOM element behind a ref; the element, not the handle, holds the        *)
(* offset.  The browser clamps every offset it is given into the           *)
(* element's scroll range, and a scroll with behavior "smooth" only sets   *)
(* the target: the offset follows in later animation frames.               *)
(***************************************************************************)
Min(a, b) == IF a <= b THEN a ELSE b
Max(a, b) == IF a >= b THEN a ELSE b

\* what the handle's methods find behind their reference: the element in
\* the document, the element taken out of the document (ListViewSeparated
\* keeps the element it captured when the handle was built), or null
Element ==
  IF mounted THEN "attached"
  ELSE IF scrollHost = "ListViewSeparated" THEN "detached"
  ELSE "null"

\* if (scrollRef.current), scrollRef.current?. : always true for the
\* element ListViewSeparated captured
RefIsSetUnguarded == TRUE
RefIsSet == Element # "null"

\* scrollHeight - clientHeight of an element with content of the given size
Extent(content) == IF content > ViewportSize THEN content - ViewportSize ELSE 0

\* the element's scrollHeight, clientHeight, scrollWidth, clientWidth (an
\* element without a box has 0 for all of them)
ScrollHeight == IF Element = "attached" THEN Max(contentHeight, ViewportSize) ELSE 0
ClientHeight == IF Element = "attached" THEN ViewportSize ELSE 0
ScrollWidth == IF Element = "attached" THEN Max(contentWidth, ViewportSize) ELSE 0
ClientWidth == IF Element = "attached" THEN ViewportSize ELSE 0

\* the scroll range of the element: 0 .. extent, and -extent .. 0 along the
\* inline axis of an element with direction: rtl
ClipTop(y, h) == Max(0, Min(y, Extent(h)))
ClipLeft(x, w) ==
  IF reverse THEN Max(0 - Extent(w), Min(x, 0))
  ELSE Max(0, Min(x, Extent(w)))

\* element.scrollTo({left: x, top: y, behavior: b}) and scrollTo(x, y)
ElementScrollTo(x, y, b) ==
  IF Element = "null"
  THEN threw' = TRUE /\ UNCHANGED element
  ELSE IF Element = "detached"
  THEN UNCHANGED << element, threw >>
  ELSE /\ targetTop' = ClipTop(y, contentHeight)
       /\ targetLeft' = ClipLeft(x, contentWidth)
       /\ surfaceTop' = (IF b = "smooth" THEN surfaceTop ELSE targetTop')
       /\ surfaceLeft' = (IF b = "smooth" THEN surfaceLeft ELSE targetLeft')
       /\ UNCHANGED threw

\* element.scrollBy({left: x, top: y, behavior: b}) and scrollBy(x, y)
ElementScrollBy(x, y, b) == ElementScrollTo(surfaceLeft + x, surfaceTop + y, b)

\* element.scrollTop = y: instant, and it ends a smooth scroll in flight
ElementSetScrollTop(y) ==
  IF Element = "null"
  THEN threw' = TRUE /\ UNCHANGED element
  ELSE IF Element = "detached"
  THEN UNCHANGED << element, threw >>
  ELSE /\ targetTop' = ClipTop(y, contentHeight)
       /\ surfaceTop' = targetTop'
       /\ targetLeft' = surfaceLeft
       /\ UNCHANGED << surfaceLeft, threw >>

\* the behavior a method of this host scrolls with
Behavior(method) ==
  IF scrollHost \in {"GridView", "GridViewBuilder"} THEN "smooth"
  ELSE IF scrollHost \in {"ListView", "ListViewBuilder"}
  THEN (IF method \in {"scrollBy", "scrollTo"} THEN "smooth" ELSE "auto")
  ELSE IF scrollHost \in StyledHosts THEN scrollBehavior
  ELSE "auto"

\* the method body runs: the ref is set, or the method does not test it
Runs == scrollHost = "ListViewSeparated" \/ RefIsSet

ScrollCall(op, top, left) == [op |-> op, top |-> top, left |-> left]

Mutators == {"scrollToTop", "scrollToBottom", "scrollBy", "scrollTo"}
Queries == {"getCurrentScrollPosition", "getMaxScrollExtent"}

ScrollInit ==
  /\ scrollHost \in ScrollHosts
  /\ direction \in ScrollDirections
  /\ reverse \in (IF scrollHost \in StyledHosts THEN BOOLEAN ELSE {FALSE})
  /\ scrollBehavior \in (IF scrollHost \in StyledHosts THEN ScrollBehaviors ELSE {"auto"})
  /\ mounted = TRUE
  /\ contentHeight \in ContentSizes
  /\ contentWidth \in ContentSizes
  /\ surfaceTop = 0
  /\ surfaceLeft = 0
  /\ targetTop = 0
  /\ targetLeft = 0
  /\ scrollPosition = [top |-> 0, left |-> 0]
  /\ threw = FALSE
  /\ scrollCall = ScrollCall("mount", 0, 0)
  /\ PageIdle
  /\ ExtrasIdle

scrollToTop ==
  /\ IF ~Runs THEN UNCHANGED << element, threw >>
     ELSE IF scrollHost \in {"ListView", "ListViewBuilder"}
     THEN ElementSetScrollTop(0)
     ELSE ElementScrollTo(0, 0, Behavior("scrollToTop"))
  /\ scrollCall' = ScrollCall("scrollToTop", 0, 0)
  /\ UNCHANGED << vars, extras, scrollProps, mounted, geometry, scrollPosition >>

scrollToBottom ==
  /\ IF ~Runs THEN UNCHANGED << element, threw >>
     ELSE IF scrollHost \in {"ListView", "ListViewBuilder"}
     THEN ElementSetScrollTop(ScrollHeight)
     ELSE IF scrollHost = "GridViewCount"
     THEN ElementScrollTo(ScrollWidth, ScrollHeight, Behavior("scrollToBottom"))
     ELSE IF scrollHost = "CustomScrollView"
     THEN ElementScrollTo(ScrollWidth - ClientWidth, ScrollHeight - ClientHeight,
                          Behavior("scrollToBottom"))
     ELSE ElementScrollTo(0, ScrollHeight, Behavior("scrollToBottom"))
  /\ scrollCall' = ScrollCall("scrollToBottom", 0, 0)
  /\ UNCHANGED << vars, extras, scrollProps, mounted, geometry, scrollPosition >>

scrollBy(x, y) ==
  /\ IF ~Runs THEN UNCHANGED << element, threw >>
     ELSE ElementScrollBy(x, y, Behavior("scrollBy"))
  /\ scrollCall' = ScrollCall("scrollBy", 0, 0)
  /\ UNCHANGED << vars, extras, scrollProps, mounted, geometry, scrollPosition >>

scrollTo(x, y) ==
  /\ IF ~Runs THEN UNCHANGED << element, threw >>
     ELSE ElementScrollTo(x, y, Behavior("scrollTo"))
  /\ scrollCall' = ScrollCall("scrollTo", 0, 0)
  /\ UNCHANGED << vars, extras, scrollProps, mounted, geometry, scrollPosition >>

\* the offset as CustomScrollView's state holds it
OffsetInState == scrollPosition
\* { top: element.scrollTop, left: element.scrollLeft }
OffsetRead == [top |-> surfaceTop, left |-> surfaceLeft]

\* reads scrollTop and scrollLeft of the element
getCurrentScrollPosition ==
  /\ scrollCall' = IF Runs
                   THEN ScrollCall("getCurrentScrollPosition", OffsetRead.top, OffsetRead.left)
                   ELSE ScrollCall("getCurrentScrollPosition", 0, 0)
  /\ threw' = (threw \/ (Runs /\ Element = "null"))
  /\ UNCHANGED << vars, extras, scrollProps, mounted, geometry, element, scrollPosition >>

\* scrollHeight - clientHeight and scrollWidth - clientWidth; GridViewCount
\* returns scrollHeight and scrollWidth
getMaxScrollExtent ==
  /\ scrollCall' = IF ~Runs
                   THEN ScrollCall("getMaxScrollExtent", 0, 0)
                   ELSE IF scrollHost = "GridViewCount"
                   THEN ScrollCall("getMaxScrollExtent", ScrollHeight, ScrollWidth)
                   ELSE ScrollCall("getMaxScrollExtent", ScrollHeight - ClientHeight,
                                   ScrollWidth - ClientWidth)
  /\ threw' = (threw \/ (Runs /\ Element = "null"))
  /\ UNCHANGED << vars, extras, scrollProps, mounted, geometry, element, scrollPosition >>

\* one step towards b from a
Towards(a, b) == IF a < b THEN a + 1 ELSE IF a > b THEN a - 1 ELSE a

\* the browser runs one frame of a smooth scroll
AnimationFrame ==
  /\ mounted
  /\ << surfaceTop, surfaceLeft >> # << targetTop, targetLeft >>
  /\ surfaceTop' = Towards(surfaceTop, targetTop)
  /\ surfaceLeft' = Towards(surfaceLeft, targetLeft)
  /\ scrollCall' = ScrollCall("frame", 0, 0)
  /\ UNCHANGED << vars, extras, scrollProps, mounted, geometry, targetTop, targetLeft,
                  scrollPosition, threw >>

\* CustomScrollView.handleScroll: the scroll event of an offset change
\* arrives and the offset is copied into the component's state
handleScrollPosition ==
  /\ mounted
  /\ scrollHost = "CustomScrollView"
  /\ scrollPosition # [top |-> surfaceTop, left |-> surfaceLeft]
  /\ scrollPosition' = [top |-> surfaceTop, left |-> surfaceLeft]
  /\ scrollCall' = ScrollCall("scroll", 0, 0)
  /\ UNCHANGED << vars, extras, scrollProps, mounted, geometry, element, threw >>

\* the content changes size: the browser keeps the offsets in the range
Resize(h, w) ==
  /\ mounted
  /\ << h, w >> # << contentHeight, contentWidth >>
  /\ contentHeight' = h
  /\ contentWidth' = w
  /\ surfaceTop' = ClipTop(surfaceTop, h)
  /\ surfaceLeft' = ClipLeft(surfaceLeft, w)
  /\ targetTop' = ClipTop(targetTop, h)
  /\ targetLeft' = ClipLeft(targetLeft, w)
  /\ scrollCall' = ScrollCall("resize", 0, 0)
  /\ UNCHANGED << vars, extras, scrollProps, mounted, scrollPosition, threw >>

\* the host is unmounted: the element leaves the document and loses its
\* box, the refs are reset; the caller still holds the handle
Unmount ==
  /\ mounted
  /\ mounted' = FALSE
  /\ contentHeight' = ViewportSize
  /\ contentWidth' = ViewportSize
  /\ surfaceTop' = 0
  /\ surfaceLeft' = 0
  /\ targetTop' = 0
  /\ targetLeft' = 0
  /\ scrollPosition' = [top |-> 0, left |-> 0]
  /\ scrollCall' = ScrollCall("unmount", 0, 0)
  /\ UNCHANGED << vars, extras, scrollProps, threw >>

ScrollNext ==
  \/ scrollToTop
  \/ scrollToBottom
  \/ \E x \in ScrollArgs, y \in ScrollArgs : scrollBy(x, y)
  \/ \E x \in ScrollArgs, y \in ScrollArgs : scrollTo(x, y)
  \/ getCurrentScrollPosition
  \/ getMaxScrollExtent
  \/ AnimationFrame
  \/ handleScrollPosition
  \/ \E h \in ContentSizes, w \in ContentSizes : Resize(h, w)
  \/ Unmount

ScrollSpec == ScrollInit /\ [][ScrollNext]_allVars

(***************************************************************************)
(* The claims.  "The index" of a host is the hook's value, pendingPage:    *)
(* what the next render shows.                                             *)
(***************************************************************************)
Index == pendingPage

\* i clamped into 0 .. n-1, for n > 0
Clamp(i, n) == IF i < 0 THEN 0 ELSE IF i > n - 1 THEN n - 1 ELSE i

\* the integer nearest to o / e (halves go up), for o >= 0 and e > 0
Nearest(o, e) ==
  CHOOSE k \in 0 .. (o \div e + 1) : 2 * k * e - e <= 2 * o /\ 2 * o < 2 * k * e + e

Distance(a, b) == IF a >= b THEN a - b ELSE b - a

\* this step is a run of the handle method or event handler op (Render is
\* the only step that changes currentPage)
HandlerStep(op) == currentPage' = currentPage /\ lastCall'.op = op
CommandStep == currentPage' = currentPage /\ lastCall'.op \in Commands

\* the offset along the scrolling axis, now and after the step
Offset == ScrollAmount(scrollLeft, scrollTop)
OffsetAfter == ScrollAmount(scrollLeft', scrollTop')

\* C1: with count > 0 the page index is always an integer in 0 .. count-1,
\* whatever scroll events and setPage / nextPage / previousPage calls came.
C1_IndexInRange == count > 0 => Index \in 0 .. (count - 1)

\* C2: setPage(i) with i in 0 .. count-1 directly followed by
\* getCurrentPage() on the handle returns i.
C2_SetPageThenGet ==
  [][ ( /\ count > 0
        /\ lastCall.op = "setPage"
        /\ lastCall.arg \in 0 .. (count - 1)
        /\ HandlerStep("getCurrentPage") )
      => lastCall'.arg = lastCall.arg ]_vars

\* C3: setPage(i) with i outside 0 .. count-1 sets the index to the nearest
\* bound, and notifies once with that bound when it differs from the index
\* before the call (count = 3, index 1, setPage(5): index 2, onPageChanged(2)).
C3_SetPageClamps ==
  [][ ( /\ count > 0
        /\ HandlerStep("setPage")
        /\ lastCall'.arg \notin 0 .. (count - 1) )
      => /\ Index' = Clamp(lastCall'.arg, count)
         /\ onPageChanged' = IF Clamp(lastCall'.arg, count) # Index
                             THEN << Clamp(lastCall'.arg, count) >>
                             ELSE << >> ]_vars

\* C4: nextPage() at index count-1 and previousPage() at index 0 leave the
\* index alone and call onPageChanged not at all, in every host and under
\* every physics value.
C4_NoStepPastTheEnds ==
  [][ ( /\ count > 0
        /\ \/ HandlerStep("nextPage") /\ Index = count - 1
           \/ HandlerStep("previousPage") /\ Index = 0 )
      => /\ Index' = Index
         /\ onPageChanged' = << >> ]_vars

\* C5: a setPage(i) whose clamped target differs from the index makes
\* exactly one onPageChanged call, with the new index.
C5_SetPageNotifiesOnce ==
  [][ ( /\ count > 0
        /\ HandlerStep("setPage")
        /\ Clamp(lastCall'.arg, count) # Index )
      => onPageChanged' = << Clamp(lastCall'.arg, count) >> ]_vars

\* C6: in a run of scroll events and nextPage / previousPage calls that
\* starts from an index in 0 .. count-1, each of them makes one onPageChanged
\* call, with the new index, when it changes the index and none when it
\* does not; so a second scroll event that computes the index already set
\* by the first makes no call, rendered in between or not.
C6_OneCallPerChange ==
  [][ ( /\ count > 0
        /\ PageExtent > 0
        /\ Index \in 0 .. (count - 1)
        /\ lastCall.op \in {"mount", "scroll", "nextPage", "previousPage"}
        /\ \/ HandlerStep("scroll")
           \/ HandlerStep("nextPage")
           \/ HandlerStep("previousPage") )
      => onPageChanged' = IF Index' # Index THEN << Index' >> ELSE << >> ]_vars

\* C7: a scroll event with offset o and page extent e > 0 computes
\* round(o / e) clamped into 0 .. count-1 and, when that differs from the
\* index (an index in 0 .. count-1), sets the index to it and calls
\* onPageChanged with it once (count = 5, e = 300, index 0, o = 620: index 2
\* and onPageChanged(2)).
C7_ScrollSetsNearestPage ==
  [][ ( /\ count > 0
        /\ PageExtent > 0
        /\ Index \in 0 .. (count - 1)
        /\ HandlerStep("scroll")
        /\ Clamp(Nearest(OffsetAfter, PageExtent), count) # Index )
      => /\ Index' = Clamp(Nearest(OffsetAfter, PageExtent), count)
         /\ onPageChanged' = << Index' >> ]_vars

\* C8: a command that changes the index to a page i of 0 .. count-1 scrolls
\* the surface to i * pageExtent along the scrolling axis.
C8_CommandScrollsSurface ==
  [][ ( /\ count > 0
        /\ PageExtent > 0
        /\ CommandStep
        /\ Index' # Index
        /\ Index' \in 0 .. (count - 1) )
      => OffsetAfter = Index' * PageExtent ]_vars

\* C9: after a command has moved the index to i, a scroll event whose
\* offset lies between the surface's old offset and i * pageExtent, more
\* than one page extent away from i * pageExtent, does not change the index
\* and makes no onPageChanged call.
C9_ScrollSuppressedAfterCommand ==
  [][ ( /\ count > 0
        /\ PageExtent > 0
        /\ lastCall.op \in Commands
        /\ lastCall.from # Index
        /\ Index \in 0 .. (count - 1)
        /\ HandlerStep("scroll")
        /\ \/ Offset <= OffsetAfter /\ OffsetAfter <= Index * PageExtent
           \/ Index * PageExtent <= OffsetAfter /\ OffsetAfter <= Offset
        /\ Distance(OffsetAfter, Index * PageExtent) > PageExtent )
      => /\ Index' = Index
         /\ onPageChanged' = << >> ]_vars

\* the index a command asks for: setPage(i) asks for i, nextPage() for the
\* index + 1, previousPage() for the index - 1
CommandTarget(call, index) ==
  IF call.op = "setPage" THEN call.arg
  ELSE IF call.op = "nextPage" THEN index + 1
  ELSE index - 1

\* C10: a command issued while the change of the command before it is still
\* on its way ends with the index at the second command's target (here: a
\* target in 0 .. count-1), and the scroll events after it are measured
\* against that second target: one more than a page extent away from it
\* changes nothing.
C10_LastCommandWins ==
  [][ /\ ( /\ count > 0
           /\ lastCall.op \in Commands
           /\ lastCall.from # Index
           /\ Index \in 0 .. (count - 1)
           /\ CommandStep
           /\ CommandTarget(lastCall', Index) \in 0 .. (count - 1) )
         => Index' = CommandTarget(lastCall', Index)
      /\ ( /\ count > 0
           /\ PageExtent > 0
           /\ lastCall.retarget
           /\ Index \in 0 .. (count - 1)
           /\ HandlerStep("scroll")
           /\ Distance(OffsetAfter, Index * PageExtent) > PageExtent )
         => /\ Index' = Index
            /\ onPageChanged' = << >> ]_vars

\* C11: with count = 0 every setPage(i), nextPage() and previousPage()
\* leaves the index where it was and calls onPageChanged not at all, and
\* getCurrentPage() keeps returning the one value it returned after mount, 0.
C11_EmptyHostIgnoresCommands ==
  [][ /\ (count = 0 /\ CommandStep)
         => /\ Index' = Index
            /\ onPageChanged' = << >>
      /\ (count = 0 /\ HandlerStep("getCurrentPage"))
         => lastCall'.arg = 0 ]_vars

\* C12: a scroll event that arrives while the page extent is 0 or count is
\* 0 leaves the index unchanged, makes no onPageChanged call, and neither
\* NaN nor Infinity becomes the index.
C12_DegenerateScrollIgnored ==
  [][ ( /\ PageExtent = 0 \/ count = 0
        /\ HandlerStep("scroll") )
      => /\ Index' = Index
         /\ onPageChanged' = << >>
         /\ Index' \notin {NaN, Infinity} ]_vars

\* what the scroll handler of a host built with physics p does with the
\* offset of this step's scroll event: the index and the calls it leaves
PhysicsOutcome(p) ==
  LET newPage == ApplyPhysicsOf(p, MathRoundDiv(OffsetAfter, PageExtent))
  IN  IF PageChangeAccepted(newPage)
      THEN << newPage, << newPage >> >>
      ELSE << Index, << >> >>

\* C13: hosts that differ only in physics (bouncy, never, clamped) go
\* through the same index values and make the same onPageChanged calls:
\* every scroll event leaves the index and the calls that the handler of
\* each of the three physics values computes from the same state (the
\* commands do not read physics).
C13_PhysicsMakesNoDifference ==
  [][ HandlerStep("scroll")
      => \A p \in Physics : << Index', onPageChanged' >> = PhysicsOutcome(p) ]_vars

\* a bouncy host has just taken a scroll event past the last page and sits
\* on the last page
C13_Witness ==
  /\ physics = "bouncy"
  /\ count > 0
  /\ PageExtent > 0
  /\ lastCall.op = "scroll"
  /\ MathRoundDiv(Offset, PageExtent) > count - 1
  /\ Index = count - 1
  /\ currentPage = Index

\* C14: nextPage() does what setPage(index + 1) does and previousPage()
\* what setPage(index - 1) does: the same resulting index and the same
\* onPageChanged calls (setPage(i) is setCurrentPage(i): index i, no call).
C14_StepIsSetPage ==
  [][ ( /\ count > 0
        /\ Index \in 0 .. (count - 1)
        /\ currentPage = Index
        /\ HandlerStep("nextPage") \/ HandlerStep("previousPage") )
      => /\ Index' = (IF lastCall'.op = "nextPage" THEN Index + 1 ELSE Index - 1)
         /\ onPageChanged' = << >> ]_vars

(***************************************************************************)
(* The claims about the scrollable hosts.  The offset of a surface is the  *)
(* element's scrollTop and scrollLeft; where a command sends the surface   *)
(* is the target of the scroll it starts.                                  *)
(***************************************************************************)
MaxTop == Extent(contentHeight)
MaxLeft == Extent(contentWidth)

\* this step is a run of the handle method op
ScrollStep(op) == scrollCall'.op = op

\* C15: whatever scrollBy(dx, dy) and scrollTo(x, y) calls were made, with
\* negative and oversized arguments too, the offset of the surface
\* satisfies 0 <= top <= maxTop and 0 <= left <= maxLeft.
C15_OffsetInRange ==
  mounted => /\ 0 <= surfaceTop /\ surfaceTop <= MaxTop
             /\ 0 <= surfaceLeft /\ surfaceLeft <= MaxLeft

\* C16: scrollToBottom() sends the surface to the maximum offset of its
\* scrolling axis, maxTop in a vertical host and maxLeft in a horizontal
\* one (here: hosts built without reverse), in each of the eight hosts;
\* where nothing can be scrolled it leaves the surface alone.
C16_BottomIsAxisMaximum ==
  [][ ( mounted /\ ~reverse /\ ScrollStep("scrollToBottom") )
      => /\ direction = "vertical" => targetTop' = MaxTop
         /\ direction = "horizontal" => targetLeft' = MaxLeft
         /\ (MaxTop = 0 /\ MaxLeft = 0) => UNCHANGED element ]_scrollVars

\* C17: scrollToTop() sends the surface to {top: 0, left: 0} in each of
\* the eight hosts, for both scroll directions and from every offset.
C17_TopIsOrigin ==
  [][ ( mounted /\ ScrollStep("scrollToTop") )
      => /\ targetTop' = 0
         /\ targetLeft' = 0 ]_scrollVars

\* C18: on a handle whose surface has been unmounted every mutator
\* (scrollToTop, scrollToBottom, scrollBy, scrollTo) raises no error and
\* changes nothing, and the two queries raise no error and return
\* {top: 0, left: 0} and {maxTop: 0, maxLeft: 0}.
C18_UnmountedHandleIsInert ==
  [][ ~mounted
      => /\ scrollCall'.op \in Mutators
            => /\ ~threw'
               /\ UNCHANGED << mounted, geometry, element, scrollPosition >>
         /\ scrollCall'.op \in Queries
            => /\ ~threw'
               /\ scrollCall'.top = 0
               /\ scrollCall'.left = 0 ]_scrollVars

\* a mutator has run on the handle of an unmounted host
C18_Witness == ~mounted /\ scrollCall.op \in Mutators /\ ~threw

\* C19: getCurrentScrollPosition() returns the current offset of the
\* surface the handle is bound to, in every state: the handle answers from
\* the element and from no copy of its own, so any two handles of one
\* surface give the same answer.
C19_ReadsTheSurface ==
  [][ ( mounted /\ ScrollStep("getCurrentScrollPosition") )
      => /\ scrollCall'.top = surfaceTop
         /\ scrollCall'.left = surfaceLeft ]_scrollVars

\* CustomScrollView has answered with the element's offset while its state
\* copy still held an older one
C19_Witness ==
  /\ scrollHost = "CustomScrollView"
  /\ mounted
  /\ scrollCall.op = "getCurrentScrollPosition"
  /\ surfaceTop > 0
  /\ scrollCall.top = surfaceTop
  /\ scrollPosition.top # surfaceTop

\* C20: getCurrentScrollPosition() called right after a mutating command
\* (scrollTo, scrollBy, scrollToTop, scrollToBottom) has returned gives the
\* clamped position the command sent the surface to, not the offset before
\* the command or a frame on the way.
C20_QueryGivesTarget ==
  [][ ( /\ mounted
        /\ scrollCall.op \in Mutators
        /\ ScrollStep("getCurrentScrollPosition") )
      => /\ scrollCall'.top = targetTop
         /\ scrollCall'.left = targetLeft ]_scrollVars

\* C21: getMaxScrollExtent() returns {maxTop: max(0, contentHeight -
\* viewportHeight), maxLeft: max(0, contentWidth - viewportWidth)} of the
\* surface as it is at the call, in each of the eight hosts, after a change
\* of the content size too.
C21_MaxExtentIsContentMinusViewport ==
  [][ ( mounted /\ ScrollStep("getMaxScrollExtent") )
      => /\ scrollCall'.top = MaxTop
         /\ scrollCall'.left = MaxLeft ]_scrollVars

\* C23: scrollBy(dx1, dy1) directly followed by scrollBy(dx2, dy2) leaves
\* the surface where one scrollBy(dx1 + dx2, dy1 + dy2) leaves it, when
\* nothing is clamped: the second call sends the surface to the place the
\* first one sent it to, moved by (dx2, dy2).
C23_ScrollByAdds ==
  [][ \A x \in ScrollArgs, y \in ScrollArgs :
        ( /\ mounted
          /\ scrollCall.op = "scrollBy"
          /\ scrollBy(x, y)
          /\ ClipTop(targetTop + y, contentHeight) = targetTop + y
          /\ ClipLeft(targetLeft + x, contentWidth) = targetLeft + x )
        => /\ targetTop' = targetTop + y
           /\ targetLeft' = targetLeft + x ]_scrollVars

\* C28: n nextPage() calls in a row from index k, with k + n <= count - 1,
\* leave the index at k + n, and n previousPage() calls with k - n >= 0 at
\* k - n, also when no render comes between the calls: each call of the run
\* moves the index by one.
C28_StepsAddUp ==
  [][ /\ ( /\ count > 0
           /\ lastCall.op = "nextPage"
           /\ HandlerStep("nextPage")
           /\ Index \in 0 .. (count - 2) )
         => Index' = Index + 1
      /\ ( /\ count > 0
           /\ lastCall.op = "previousPage"
           /\ HandlerStep("previousPage")
           /\ Index \in 1 .. (count - 1) )
         => Index' = Index - 1 ]_vars

(***************************************************************************)
(* Binding the handle to the caller's reference.  The caller gives the     *)
(* host a ref object as prop and reads its .current before every call.     *)
(* ListView, ListViewBuilder, NestedScrollView, CustomScrollView, PageView *)
(* and PageViewBuilder fill the ref with useImperativeHandle, in the       *)
(* commit; GridView, GridViewBuilder, ListViewSeparated and PageViewCustom *)
(* assign .current in a useEffect, which runs after the commit;            *)
(* GridViewCount takes no ref prop and hangs its handle on the element.    *)
(***************************************************************************)
\* how often the host is mounted in a run
MaxMounts == 3

\* the other components, which take no part in the binding
beyondBind == << carouselVars, textVars, gestureVars >>
BeyondBindIdle == CarouselIdle /\ TextIdle /\ GestureIdle

ImperativeHosts == {"ListView", "ListViewBuilder", "NestedScrollView",
                    "CustomScrollView", "PageView", "PageViewBuilder"}
EffectHosts == {"GridView", "GridViewBuilder", "ListViewSeparated", "PageViewCustom"}
BindHosts == ImperativeHosts \cup EffectHosts \cup {"GridViewCount"}

\* the host has a prop for the caller's reference
AcceptsRef == bindHost # "GridViewCount"

\* the handle an instance builds: ListViewSeparated's methods hold the
\* element found in containerRef.current, the others read their element
\* ref at each call
NewHandle(i) ==
  [instance |-> i, element |-> IF bindHost = "ListViewSeparated" THEN i ELSE 0]

\* the element a call on handle h acts on (0: none; instance i owns element i)
ActsOn(h) ==
  IF h.element # 0 THEN h.element
  ELSE IF h.instance = instance THEN instance
  ELSE 0

\* an effect with no dependency on the ref prop
EffectDepsNever(old, new) == FALSE
\* useEffect(..., [scrollControllerRef]): the effect runs again when the
\* prop is another object
EffectDepsChanged(old, new) == old # new

BindInit ==
  /\ bindHost \in BindHosts
  /\ suppliedRef = "refA"
  /\ instance = 1
  /\ refCurrent = [r \in Refs |->
                     IF bindHost \in ImperativeHosts /\ r = "refA"
                     THEN NewHandle(1) ELSE Null]
  /\ effectPending = (bindHost \notin ImperativeHosts)
  /\ bindCall = [op |-> "mount", reached |-> FALSE, actedOn |-> 0]
  /\ PageIdle
  /\ ScrollIdle
  /\ BeyondBindIdle

\* the host's useEffect runs
RunEffect ==
  /\ effectPending
  /\ effectPending' = FALSE
  /\ refCurrent' = IF bindHost \in EffectHosts
                   THEN [refCurrent EXCEPT ![suppliedRef] = NewHandle(instance)]
                   ELSE refCurrent
  /\ bindCall' = [op |-> "effect", reached |-> FALSE, actedOn |-> 0]
  /\ UNCHANGED << vars, scrollVars, beyondBind, bindHost, suppliedRef, instance >>

\* the parent renders the host with another ref object
SwapRef(r) ==
  /\ r # suppliedRef
  /\ suppliedRef' = r
  /\ refCurrent' = IF bindHost \in ImperativeHosts
                   THEN [refCurrent EXCEPT ![suppliedRef] = Null,
                                           ![r] = NewHandle(instance)]
                   ELSE refCurrent
  /\ effectPending' = \/ effectPending
                      \/ bindHost \in EffectHosts /\ EffectDepsChanged(suppliedRef, r)
  /\ bindCall' = [op |-> "swap", reached |-> FALSE, actedOn |-> 0]
  /\ UNCHANGED << vars, scrollVars, beyondBind, bindHost, instance >>

\* the host is unmounted and mounted again (a new key): a new instance
\* with a new element
Remount ==
  /\ instance < MaxMounts
  /\ instance' = instance + 1
  /\ refCurrent' = IF bindHost \in ImperativeHosts
                   THEN [refCurrent EXCEPT ![suppliedRef] = NewHandle(instance + 1)]
                   ELSE refCurrent
  /\ effectPending' = (bindHost \notin ImperativeHosts)
  /\ bindCall' = [op |-> "remount", reached |-> FALSE, actedOn |-> 0]
  /\ UNCHANGED << vars, scrollVars, beyondBind, bindHost, suppliedRef >>

\* the caller calls a method through the reference it supplied:
\* ref.current?.method()
CallThroughRef ==
  /\ bindCall' = [op |-> "call",
                  reached |-> refCurrent[suppliedRef] # Null,
                  actedOn |-> ActsOn(refCurrent[suppliedRef])]
  /\ UNCHANGED << vars, scrollVars, beyondBind, bindHost, suppliedRef, refCurrent, instance,
                  effectPending >>

BindNext ==
  \/ RunEffect
  \/ \E r \in Refs : SwapRef(r)
  \/ Remount
  \/ CallThroughRef

BindSpec == BindInit /\ [][BindNext]_allVars

MaxTimers == 3
\* numbers of children
CarouselLengths == {1, 3}
\* the indicators of the longest Carousel
IndicatorIndices == 0 .. 2

\* the other components, which take no part in a Carousel's run
beyondCarousel == << bindVars, textVars, gestureVars >>
BeyondCarouselIdle == BindIdle /\ TextIdle /\ GestureIdle

\* a % n of JavaScript: the sign of the result is the sign of a
JsMod(a, n) == IF a >= 0 THEN a % n ELSE 0 - ((0 - a) % n)

\* the index without the "+ children.length" before the remainder
NextIndexNoOffset(prevIndex, delta) ==
  IF carouselProps.enableInfiniteScroll
  THEN JsMod(prevIndex + delta, carouselProps.length)
  ELSE Min(Max(prevIndex + delta, 0), carouselProps.length - 1)

\* the updater of nextSlide / prevSlide: newIndex = prevIndex + delta, then
\* (newIndex + children.length) % children.length, or
\* Math.min(Math.max(newIndex, 0), children.length - 1)
NextIndex(prevIndex, delta) ==
  IF carouselProps.enableInfiniteScroll
  THEN JsMod(prevIndex + delta + carouselProps.length, carouselProps.length)
  ELSE Min(Max(prevIndex + delta, 0), carouselProps.length - 1)

\* reverse ? prevIndex - 1 : prevIndex + 1
NextDelta == IF carouselProps.reverse THEN 0 - 1 ELSE 1
\* reverse ? prevIndex + 1 : prevIndex - 1
PrevDelta == IF carouselProps.reverse THEN 1 ELSE 0 - 1

CarouselEvent(op, calls) == [op |-> op, calls |-> calls]

CarouselInit ==
  /\ \E n \in CarouselLengths, inf \in BOOLEAN, rev \in BOOLEAN :
       carouselProps = [length |-> n, enableInfiniteScroll |-> inf, reverse |-> rev]
  /\ autoPlayInterval \in Intervals
  /\ currentIndex \in 0 .. (carouselProps.length - 1)
  /\ isPlaying \in BOOLEAN
  /\ carouselIntervalRef = 0
  /\ armedTimers = {}
  /\ timersMade = 0
  /\ effectDeps = << >>
  /\ carouselMounted = TRUE
  /\ carouselEvent = CarouselEvent("mount", << >>)
  /\ PageIdle
  /\ ScrollIdle
  /\ BeyondCarouselIdle

\* nextSlide: setCurrentIndex(prevIndex => ...)
nextSlide(op) ==
  /\ currentIndex' = NextIndex(currentIndex, NextDelta)
  /\ carouselEvent' = CarouselEvent(op, << >>)
  /\ UNCHANGED << vars, scrollVars, beyondCarousel, carouselProps, autoPlayInterval,
                  isPlaying, carouselIntervalRef, armedTimers, timersMade,
                  effectDeps, carouselMounted >>

\* the next button, rendered when enableInfiniteScroll is set
ClickNext ==
  /\ carouselMounted
  /\ carouselProps.enableInfiniteScroll
  /\ nextSlide("next")

\* the previous button: prevSlide
ClickPrevious ==
  /\ carouselMounted
  /\ carouselProps.enableInfiniteScroll
  /\ currentIndex' = NextIndex(currentIndex, PrevDelta)
  /\ carouselEvent' = CarouselEvent("previous", << >>)
  /\ UNCHANGED << vars, scrollVars, beyondCarousel, carouselProps, autoPlayInterval,
                  isPlaying, carouselIntervalRef, armedTimers, timersMade,
                  effectDeps, carouselMounted >>

\* an armed interval timer fires: nextSlide
AutoplayTick ==
  /\ armedTimers # {}
  /\ nextSlide("tick")

\* a click on indicator index: handlePageChange(index)
ClickIndicator(index) ==
  /\ carouselMounted
  /\ index < carouselProps.length
  /\ currentIndex' = index
  /\ carouselEvent' = CarouselEvent("indicator", << index >>)
  /\ UNCHANGED << vars, scrollVars, beyondCarousel, carouselProps, autoPlayInterval,
                  isPlaying, carouselIntervalRef, armedTimers, timersMade,
                  effectDeps, carouselMounted >>

\* the play / pause button: setIsPlaying(!isPlaying)
TogglePlay ==
  /\ carouselMounted
  /\ isPlaying' = ~isPlaying
  /\ carouselEvent' = CarouselEvent("toggle", << >>)
  /\ UNCHANGED << vars, scrollVars, beyondCarousel, carouselProps, autoPlayInterval,
                  currentIndex, carouselIntervalRef, armedTimers, timersMade,
                  effectDeps, carouselMounted >>

\* the parent renders the Carousel with another autoPlayInterval
ChangeInterval(ms) ==
  /\ carouselMounted
  /\ ms # autoPlayInterval
  /\ autoPlayInterval' = ms
  /\ carouselEvent' = CarouselEvent("interval", << >>)
  /\ UNCHANGED << vars, scrollVars, beyondCarousel, carouselProps, currentIndex,
                  isPlaying, carouselIntervalRef, armedTimers, timersMade,
                  effectDeps, carouselMounted >>

\* the timers left by the cleanup of the effect's last run: it clears the
\* timer in the ref and leaves the ref as it is
AfterCleanup ==
  IF effectDeps # << >> /\ carouselIntervalRef # 0
  THEN armedTimers \ {carouselIntervalRef}
  ELSE armedTimers

\* the autoplay effect runs (first run, or a dependency has changed): the
\* cleanup of the last run, then the body
AutoplayEffect ==
  /\ carouselMounted
  /\ effectDeps # << isPlaying, autoPlayInterval >>
  /\ IF isPlaying /\ carouselIntervalRef = 0
     THEN /\ timersMade < MaxTimers
          /\ timersMade' = timersMade + 1
          /\ carouselIntervalRef' = timersMade'
          /\ armedTimers' = AfterCleanup \cup {timersMade'}
     ELSE IF ~isPlaying /\ carouselIntervalRef # 0
     THEN /\ armedTimers' = AfterCleanup \ {carouselIntervalRef}
          /\ carouselIntervalRef' = 0
          /\ UNCHANGED timersMade
     ELSE /\ armedTimers' = AfterCleanup
          /\ UNCHANGED << carouselIntervalRef, timersMade >>
  /\ effectDeps' = << isPlaying, autoPlayInterval >>
  /\ carouselEvent' = CarouselEvent("effect", << >>)
  /\ UNCHANGED << vars, scrollVars, beyondCarousel, carouselProps, autoPlayInterval,
                  currentIndex, isPlaying, carouselMounted >>

\* the Carousel is unmounted: the cleanup of the effect's last run
CarouselUnmount ==
  /\ carouselMounted
  /\ carouselMounted' = FALSE
  /\ armedTimers' = AfterCleanup
  /\ carouselEvent' = CarouselEvent("unmount", << >>)
  /\ UNCHANGED << vars, scrollVars, beyondCarousel, carouselProps, autoPlayInterval,
                  currentIndex, isPlaying, carouselIntervalRef, timersMade, effectDeps >>

CarouselNext ==
  \/ ClickNext
  \/ ClickPrevious
  \/ AutoplayTick
  \/ \E i \in IndicatorIndices : ClickIndicator(i)
  \/ TogglePlay
  \/ \E ms \in Intervals : ChangeInterval(ms)
  \/ AutoplayEffect
  \/ CarouselUnmount

CarouselSpec == CarouselInit /\ [][CarouselNext]_allVars

\* C24: every change of the Carousel's index, by an indicator click, the
\* next / previous buttons or an autoplay tick, comes with the call
\* onPageChanged(new index).
C24_EveryChangeNotifies ==
  [][ currentIndex' # currentIndex
      => carouselEvent'.calls = << currentIndex' >> ]_carouselVars

\* C29: with at least one child and initialPage in 0 .. length-1 the index
\* stays in 0 .. length-1 through nextSlide, prevSlide, autoplay ticks and
\* indicator clicks; a step forward or back wraps modulo length with
\* enableInfiniteScroll and saturates at 0 and length-1 without it, for
\* both values of reverse.
C29_IndexWrapsOrSaturates ==
  [][ LET n == carouselProps.length
          d == IF carouselEvent'.op = "previous" THEN PrevDelta ELSE NextDelta
      IN  /\ currentIndex' \in 0 .. (n - 1)
          /\ carouselEvent'.op \in {"next", "previous", "tick"}
             => currentIndex' = IF carouselProps.enableInfiniteScroll
                                THEN (currentIndex + d) % n
                                ELSE IF currentIndex + d < 0 THEN 0
                                ELSE IF currentIndex + d > n - 1 THEN n - 1
                                ELSE currentIndex + d ]_carouselVars

\* a reversed Carousel with infinite scroll has stepped forward from index
\* 0 and wrapped to the last index
C29_Witness ==
  /\ carouselProps.length = 3
  /\ carouselProps.enableInfiniteScroll
  /\ carouselProps.reverse
  /\ carouselEvent.op \in {"next", "tick"}
  /\ currentIndex = 2

\* C30: after every run of the autoplay effect exactly one interval timer
\* is armed when isPlaying is true and none when it is false, through all
\* play / pause toggles and changes of autoPlayInterval; and no timer is
\* armed after unmount.
C30_OneTimerWhilePlaying ==
  [][ /\ carouselEvent'.op = "effect"
         => Cardinality(armedTimers') = (IF isPlaying' THEN 1 ELSE 0)
      /\ carouselEvent'.op = "unmount"
         => armedTimers' = {} ]_carouselVars


\* ---------------------------------------------------------------------
\* TextEditingController: a text and the listeners told of its changes
\* ---------------------------------------------------------------------

\* how many listeners the checked runs register at most
MaxListeners == 3

\* the texts the checked runs assign
Texts == {"", "a", "b"}

\* the listener functions the checked runs pass
ListenerFns == {"f", "g"}

\* the state of everything but the controller
beyondText == << bindVars, carouselVars, gestureVars >>

BeyondTextIdle == BindIdle /\ CarouselIdle /\ GestureIdle

\* a removal that takes out only the first occurrence
FilterFirst(ls, listener) ==
  IF \E i \in 1 .. Len(ls) : ls[i] = listener
    THEN LET first == CHOOSE i \in 1 .. Len(ls) :
                        /\ ls[i] = listener
                        /\ \A j \in 1 .. (i - 1) : ls[j] # listener
         IN  SubSeq(ls, 1, first - 1) \o SubSeq(ls, first + 1, Len(ls))
    ELSE ls

\* this.listeners.filter((l) => l !== listener)
Filter(ls, listener) == SelectSeq(ls, LAMBDA l : l # listener)

\* this.listeners.forEach((listener) => listener(this.text))
notifyListeners(ls, t) == [i \in 1 .. Len(ls) |-> [listener |-> ls[i], text |-> t]]

TextEvent(op, arg, calls) == [op |-> op, arg |-> arg, calls |-> calls]

\* new TextEditingController(text)
TextInit ==
  /\ text \in Texts
  /\ listeners = << >>
  /\ textEvent = TextEvent("none", "", << >>)
  /\ PageIdle /\ ScrollIdle /\ BeyondTextIdle

\* set value(newText)
setValue(newText) ==
  /\ text' = newText
  /\ textEvent' = TextEvent("value", newText, notifyListeners(listeners, newText))
  /\ UNCHANGED << vars, scrollVars, beyondText, listeners >>

\* clear()
clear ==
  /\ text' = ""
  /\ textEvent' = TextEvent("clear", "", notifyListeners(listeners, ""))
  /\ UNCHANGED << vars, scrollVars, beyondText, listeners >>

\* addListener(listener)
addListener(listener) ==
  /\ Len(listeners) < MaxListeners
  /\ listeners' = Append(listeners, listener)
  /\ textEvent' = TextEvent("addListener", listener, << >>)
  /\ UNCHANGED << vars, scrollVars, beyondText, text >>

\* removeListener(listener)
removeListener(listener) ==
  /\ listeners' = Filter(listeners, listener)
  /\ textEvent' = TextEvent("removeListener", listener, << >>)
  /\ UNCHANGED << vars, scrollVars, beyondText, text >>

\* dispose()
dispose ==
  /\ listeners' = << >>
  /\ textEvent' = TextEvent("dispose", "", << >>)
  /\ UNCHANGED << vars, scrollVars, beyondText, text >>

TextNext ==
  \/ \E newText \in Texts : setValue(newText)
  \/ clear
  \/ \E listener \in ListenerFns : addListener(listener)
  \/ \E listener \in ListenerFns : removeListener(listener)
  \/ dispose

TextSpec == TextInit /\ [][TextNext]_allVars

\* C25: assigning value or calling clear() stores the new text and calls
\* the listeners registered at that moment, in the order they were added,
\* each with the new text; addListener registers at the end, a listener
\* given to removeListener is registered no more, and after dispose() none is.
C25_ListenersHearEveryChange ==
  [][ /\ ( textEvent'.op \in {"value", "clear"} )
         => /\ text' = textEvent'.arg
            /\ textEvent'.op = "clear" => text' = ""
            /\ Len(textEvent'.calls) = Len(listeners)
            /\ \A i \in 1 .. Len(listeners) :
                 textEvent'.calls[i] = [listener |-> listeners[i], text |-> text']
      /\ ( textEvent'.op = "addListener" )
         => listeners' = listeners \o << textEvent'.arg >>
      /\ ( textEvent'.op = "removeListener" )
         => /\ \A i \in 1 .. Len(listeners') : listeners'[i] # textEvent'.arg
            /\ listeners' = SelectSeq(listeners, LAMBDA l : l \in { listeners'[i] : i \in 1 .. Len(listeners') })
      /\ ( textEvent'.op = "dispose" ) => listeners' = << >>
      /\ ( textEvent'.op \notin {"value", "clear"} ) => textEvent'.calls = << >>
    ]_textVars

\* a change told, in order, to a listener that is registered twice
C25_Witness ==
  /\ textEvent.op = "value"
  /\ text = "b"
  /\ listeners = << "g", "g" >>
  /\ textEvent.calls = << [listener |-> "g", text |-> "b"], [listener |-> "g", text |-> "b"] >>


\* ---------------------------------------------------------------------
\* GestureDetector: taps, double taps and long presses
\* ---------------------------------------------------------------------

\* how many timeouts the checked runs set at most
MaxTimeouts == 2

\* the clock value the checked runs end at
MaxTime == 1700

\* the steps the clock takes between events
ClockSteps == {100, 300}

\* longPressDelay = 500
longPressDelay == 500

\* currentTime - lastTap < 300
DoubleTapWindow == 300

\* the state of everything but the detector
beyondGesture == << bindVars, carouselVars, textVars >>

BeyondGestureIdle == BindIdle /\ CarouselIdle /\ TextIdle

GestureEvent(op, calls, timer) == [op |-> op, calls |-> calls, timer |-> timer]

\* clearTimeout(id)
clearTimeout(pending, id) == { t \in pending : t.id # id }

\* the first render of the component
GestureInit ==
  /\ lastTap = 0
  /\ lastTapRendered = 0
  /\ pressTimeout = 0
  /\ pressTimeoutRendered = 0
  /\ pendingTimeouts = {}
  /\ timeoutsMade = 0
  /\ now \in {StartTime, StartTime + 100}
  /\ pressed = FALSE
  /\ gestureEvent = GestureEvent("none", << >>, 0)
  /\ PageIdle /\ ScrollIdle /\ BeyondGestureIdle

\* handleTap, as the last render built it
handleTap ==
  /\ IF lastTapRendered # 0 /\ now - lastTapRendered < DoubleTapWindow
       THEN /\ gestureEvent' = GestureEvent("tap", << "onDoubleTap" >>, 0)
            /\ lastTap' = 0
       ELSE /\ gestureEvent' = GestureEvent("tap", << "onTap" >>, 0)
            /\ lastTap' = now
  /\ UNCHANGED << vars, scrollVars, beyondGesture, lastTapRendered, pressTimeout,
                  pressTimeoutRendered, pendingTimeouts, timeoutsMade, now, pressed >>

\* handleLongPress, as the last render built it: mouse down or touch start
handleLongPress ==
  /\ timeoutsMade < MaxTimeouts
  /\ timeoutsMade' = timeoutsMade + 1
  /\ pendingTimeouts' =
       ( IF pressTimeoutRendered # 0
           THEN clearTimeout(pendingTimeouts, pressTimeoutRendered)
           ELSE pendingTimeouts )
       \cup { [id |-> timeoutsMade + 1, due |-> now + longPressDelay] }
  /\ pressTimeout' = timeoutsMade + 1
  /\ pressed' = TRUE
  /\ gestureEvent' = GestureEvent("press", << >>, timeoutsMade + 1)
  /\ UNCHANGED << vars, scrollVars, beyondGesture, lastTap, lastTapRendered,
                  pressTimeoutRendered, now >>

\* resetPressTimeout, as the last render built it: mouse up or touch end
resetPressTimeout ==
  /\ pressed
  /\ pendingTimeouts' =
       IF pressTimeoutRendered # 0
         THEN clearTimeout(pendingTimeouts, pressTimeoutRendered)
         ELSE pendingTimeouts
  /\ pressed' = FALSE
  /\ gestureEvent' = GestureEvent("release", << >>, 0)
  /\ UNCHANGED << vars, scrollVars, beyondGesture, lastTap, lastTapRendered,
                  pressTimeout, pressTimeoutRendered, timeoutsMade, now >>

\* a pending timeout runs its callback
TimeoutFires(id) ==
  /\ \E t \in pendingTimeouts : t.id = id /\ t.due <= now
  /\ pendingTimeouts' = { t \in pendingTimeouts : t.id # id }
  /\ gestureEvent' = GestureEvent("timeout", << "onLongPress" >>, id)
  /\ UNCHANGED << vars, scrollVars, beyondGesture, lastTap, lastTapRendered,
                  pressTimeout, pressTimeoutRendered, timeoutsMade, now, pressed >>

\* the component renders with the queued state
GestureRender ==
  /\ << lastTapRendered, pressTimeoutRendered >> # << lastTap, pressTimeout >>
  /\ lastTapRendered' = lastTap
  /\ pressTimeoutRendered' = pressTimeout
  /\ gestureEvent' = GestureEvent("render", << >>, 0)
  /\ UNCHANGED << vars, scrollVars, beyondGesture, lastTap, pressTimeout,
                  pendingTimeouts, timeoutsMade, now, pressed >>

\* time passes
ClockTick(ms) ==
  /\ now + ms <= MaxTime
  /\ now' = now + ms
  /\ gestureEvent' = GestureEvent("tick", << >>, 0)
  /\ UNCHANGED << vars, scrollVars, beyondGesture, lastTap, lastTapRendered,
                  pressTimeout, pressTimeoutRendered, pendingTimeouts,
                  timeoutsMade, pressed >>

GestureNext ==
  \/ handleTap
  \/ handleLongPress
  \/ resetPressTimeout
  \/ \E id \in 1 .. MaxTimeouts : TimeoutFires(id)
  \/ GestureRender
  \/ \E ms \in ClockSteps : ClockTick(ms)

GestureSpec == GestureInit /\ [][GestureNext]_allVars

\* C26: a release leaves no long-press timer pending, a press leaves
\* exactly one, and onLongPress is called only by the timer of the press
\* that is still held, once longPressDelay has passed since that press.
C26_ReleaseCancelsLongPress ==
  [][ /\ ( gestureEvent'.op = "release" ) => pendingTimeouts' = {}
      /\ ( gestureEvent'.op = "press" )
         => pendingTimeouts' = { [id |-> gestureEvent'.timer, due |-> now + longPressDelay] }
      /\ ( gestureEvent'.op = "timeout" )
         => /\ pressed
            /\ gestureEvent'.timer = pressTimeout
    ]_gestureVars

\* C27: a tap less than 300 ms after a stored tap calls onDoubleTap alone
\* and clears the stored time; every other tap calls onTap alone and
\* stores its time.
C27_SecondTapIsDoubleTap ==
  [][ ( gestureEvent'.op = "tap" )
      => IF lastTap # 0 /\ now - lastTap < DoubleTapWindow
           THEN gestureEvent'.calls = << "onDoubleTap" >> /\ lastTap' = 0
           ELSE gestureEvent'.calls = << "onTap" >> /\ lastTap' = now
    ]_gestureVars

====
